---- MODULE Spec2Model ----
(***************************************************************************)
(* A model of keyring-node: src/keyring.js (the encryption engine) and its *)
(* callers.  Buffers are sequences of bytes (0..255), JavaScript strings   *)
(* are sequences of UTF-16 code units (base64 text included).              *)
(*                                                                         *)
(* Node's crypto primitives are library code.  They are modelled by small  *)
(* functions that keep the structure the program relies on: the block      *)
(* cipher is a keyed bijection on 16-byte blocks used in CBC mode with     *)
(* PKCS#7 padding, the HMAC and SHA-1 are keyed / unkeyed checksums that   *)
(* change whenever one input byte or the key changes.                      *)
(***************************************************************************)
EXTENDS Integers, Sequences, FiniteSets

(***************************************************************************)
(* Bytes and bit operations                                                *)
(***************************************************************************)
\* a ^ b and a | b on bytes, bit by bit.
Bit(a, k) == (a \div k) % 2

BitXor(a, b) ==
    ((Bit(a, 1) + Bit(b, 1)) % 2)
  + (((Bit(a, 2) + Bit(b, 2)) % 2) * 2)
  + (((Bit(a, 4) + Bit(b, 4)) % 2) * 4)
  + (((Bit(a, 8) + Bit(b, 8)) % 2) * 8)
  + (((Bit(a, 16) + Bit(b, 16)) % 2) * 16)
  + (((Bit(a, 32) + Bit(b, 32)) % 2) * 32)
  + (((Bit(a, 64) + Bit(b, 64)) % 2) * 64)
  + (((Bit(a, 128) + Bit(b, 128)) % 2) * 128)

BitOr(a, b) == a + b - (((a + b) - BitXor(a, b)) \div 2)

\* TRUE, whatever x is; evaluating it makes TLC compute x once, before x is
\* handed to a recursive operator.
Force(x) == x = x

\* The sum of s[lo..hi], halving the range.
RECURSIVE SumRange(_, _, _)
SumRange(s, lo, hi) ==
  IF lo > hi THEN 0
  ELSE IF lo = hi THEN s[lo]
  ELSE SumRange(s, lo, (lo + hi) \div 2) + SumRange(s, ((lo + hi) \div 2) + 1, hi)

SumSeq(s) == LET v == s IN IF Force(v) THEN SumRange(v, 1, Len(v)) ELSE 0

\* Buffer.prototype.slice(start, end) with 0-based, end-exclusive offsets,
\* clamped to the buffer as Node does.
Slice(buf, start, end) ==
  LET e == IF end > Len(buf) THEN Len(buf) ELSE end
  IN  IF start >= e THEN <<>> ELSE SubSeq(buf, start + 1, e)

SliceFrom(buf, start) == Slice(buf, start, Len(buf))

\* A buffer of n bytes of a recognisable pattern.
PatternBytes(seed, n) == [i \in 1..n |-> ((seed * 37) + (i * 11)) % 256]

(***************************************************************************)
(* base64 (strings are sequences of character codes)                       *)
(***************************************************************************)
\* The character of a sextet: A-Z, a-z, 0-9, "+", "/".
Base64Char(v) ==
  IF v < 26 THEN 65 + v
  ELSE IF v < 52 THEN 97 + (v - 26)
  ELSE IF v < 62 THEN 48 + (v - 52)
  ELSE IF v = 62 THEN 43
  ELSE 47

\* The sextet of a character, -1 for a character outside the alphabet
\* (Node also reads the URL-safe "-" and "_").
Base64Value(c) ==
  IF c >= 65 /\ c <= 90 THEN c - 65
  ELSE IF c >= 97 /\ c <= 122 THEN (c - 97) + 26
  ELSE IF c >= 48 /\ c <= 57 THEN (c - 48) + 52
  ELSE IF c = 43 \/ c = 45 THEN 62
  ELSE IF c = 47 \/ c = 95 THEN 63
  ELSE -1

\* Buffer.prototype.toString("base64"): three bytes give four characters,
\* the last group is padded with "=" (61).
Base64Encode(bytes) ==
  LET b == bytes
      n == Len(b)
      At(i) == IF i <= n THEN b[i] ELSE 0
      Quad(g, j) ==
        IF j = 0 THEN Base64Char(At((3 * g) + 1) \div 4)
        ELSE IF j = 1
        THEN Base64Char(((At((3 * g) + 1) % 4) * 16) + (At((3 * g) + 2) \div 16))
        ELSE IF j = 2
        THEN IF (3 * g) + 2 > n THEN 61
             ELSE Base64Char(((At((3 * g) + 2) % 16) * 4) + (At((3 * g) + 3) \div 64))
        ELSE IF (3 * g) + 3 > n THEN 61
             ELSE Base64Char(At((3 * g) + 3) % 64)
  IN  IF Force(b)
      THEN SubSeq([c \in 1..(4 * ((n + 2) \div 3)) |-> Quad((c - 1) \div 4, (c - 1) % 4)],
                  1, 4 * ((n + 2) \div 3))
      ELSE <<>>

\* The sextets of a base64 string: decoding stops at the first "=" and
\* skips every character outside the alphabet.
Base64Payload(chars) ==
  LET c == chars
      pads == { i \in 1..Len(c) : c[i] = 61 }
      stop == IF pads = {} THEN Len(c) + 1
              ELSE CHOOSE i \in pads : \A j \in pads : i <= j
      valid == SelectSeq(SubSeq(c, 1, stop - 1), LAMBDA ch : Base64Value(ch) >= 0)
  IN  IF Force(c) THEN [i \in 1..Len(valid) |-> Base64Value(valid[i])] ELSE <<>>

\* The bytes of a sequence of sextets: each byte spans two sextets.
Base64DecodePayload(p) ==
  LET v == p
      n == (Len(v) * 6) \div 8
      Byte(k) ==
        LET q == (((k - 1) \div 3) * 4) + 1
            r == (k - 1) % 3
        IN  IF r = 0 THEN (v[q] * 4) + (v[q + 1] \div 16)
            ELSE IF r = 1 THEN ((v[q + 1] % 16) * 16) + (v[q + 2] \div 4)
            ELSE ((v[q + 2] % 4) * 64) + v[q + 3]
  IN  IF Force(v) THEN SubSeq([k \in 1..n |-> Byte(k)], 1, n) ELSE <<>>

\* Buffer.from(string, "base64").
Base64Decode(chars) ==
  LET p == SubSeq(Base64Payload(chars), 1, Len(Base64Payload(chars)))
  IN  IF Force(p) THEN Base64DecodePayload(p) ELSE <<>>

(***************************************************************************)
(* UTF-8 (Buffer.from(string) and Buffer.prototype.toString())             *)
(***************************************************************************)
IsHighSurrogate(u) == u >= 55296 /\ u <= 56319
IsLowSurrogate(u) == u >= 56320 /\ u <= 57343

Utf8OfCodePoint(cp) ==
  IF cp < 128 THEN << cp >>
  ELSE IF cp < 2048 THEN << 192 + (cp \div 64), 128 + (cp % 64) >>
  ELSE IF cp < 65536 THEN
    << 224 + (cp \div 4096), 128 + ((cp \div 64) % 64), 128 + (cp % 64) >>
  ELSE
    << 240 + (cp \div 262144), 128 + ((cp \div 4096) % 64),
       128 + ((cp \div 64) % 64), 128 + (cp % 64) >>

\* Buffer.from(string): UTF-8 of the code units; a surrogate pair is one code
\* point, an unpaired surrogate is written as U+FFFD.
RECURSIVE Utf8EncodeFrom(_, _)
Utf8EncodeFrom(units, i) ==
  IF i > Len(units) THEN <<>>
  ELSE IF IsHighSurrogate(units[i]) /\ i < Len(units) /\ IsLowSurrogate(units[i + 1])
  THEN Utf8OfCodePoint(65536 + ((units[i] - 55296) * 1024) + (units[i + 1] - 56320))
       \o Utf8EncodeFrom(units, i + 2)
  ELSE IF IsHighSurrogate(units[i]) \/ IsLowSurrogate(units[i])
  THEN Utf8OfCodePoint(65533) \o Utf8EncodeFrom(units, i + 1)
  ELSE Utf8OfCodePoint(units[i]) \o Utf8EncodeFrom(units, i + 1)

Utf8Encode(units) ==
  LET v == units IN IF Force(v) THEN Utf8EncodeFrom(v, 1) ELSE <<>>

IsCont(bytes, i) == i <= Len(bytes) /\ bytes[i] >= 128 /\ bytes[i] < 192

UnitsOfCodePoint(cp) ==
  IF cp < 65536 THEN << cp >>
  ELSE << 55296 + ((cp - 65536) \div 1024), 56320 + ((cp - 65536) % 1024) >>

\* Buffer.prototype.toString(): UTF-8 decoding; a byte that starts no
\* well-formed sequence is read as U+FFFD.
RECURSIVE Utf8DecodeFrom(_, _)
Utf8DecodeFrom(bytes, i) ==
  IF i > Len(bytes) THEN <<>>
  ELSE LET b == bytes[i] IN
    IF b < 128 THEN << b >> \o Utf8DecodeFrom(bytes, i + 1)
    ELSE IF b >= 194 /\ b < 224 /\ IsCont(bytes, i + 1) THEN
      << ((b - 192) * 64) + (bytes[i + 1] - 128) >>
      \o Utf8DecodeFrom(bytes, i + 2)
    ELSE IF b >= 224 /\ b < 240 /\ IsCont(bytes, i + 1) /\ IsCont(bytes, i + 2)
            /\ ((b - 224) * 4096) + ((bytes[i + 1] - 128) * 64) >= 2048
            /\ ~ (    ((b - 224) * 4096) + ((bytes[i + 1] - 128) * 64) >= 55296
                   /\ ((b - 224) * 4096) + ((bytes[i + 1] - 128) * 64) <= 57343)
    THEN
      << ((b - 224) * 4096) + ((bytes[i + 1] - 128) * 64) + (bytes[i + 2] - 128) >>
      \o Utf8DecodeFrom(bytes, i + 3)
    ELSE IF b >= 240 /\ b < 245 /\ IsCont(bytes, i + 1) /\ IsCont(bytes, i + 2)
            /\ IsCont(bytes, i + 3)
            /\ ((b - 240) * 262144) + ((bytes[i + 1] - 128) * 4096) >= 65536
            /\ ((b - 240) * 262144) + ((bytes[i + 1] - 128) * 4096) < 1114112
    THEN
      UnitsOfCodePoint(((b - 240) * 262144) + ((bytes[i + 1] - 128) * 4096)
                       + ((bytes[i + 2] - 128) * 64) + (bytes[i + 3] - 128))
      \o Utf8DecodeFrom(bytes, i + 4)
    ELSE << 65533 >> \o Utf8DecodeFrom(bytes, i + 1)

Utf8Decode(bytes) ==
  LET v == bytes IN IF Force(v) THEN Utf8DecodeFrom(v, 1) ELSE <<>>

(***************************************************************************)
(* JavaScript values                                                       *)
(*   [t |-> type, s |-> text]: a string holds its code units, a number the *)
(*   code units of String(number), an array or a Buffer its bytes.         *)
(***************************************************************************)
JsString(units) == [t |-> "string", s |-> units]
JsNumber(text) == [t |-> "number", s |-> text]
JsArray(bytes) == [t |-> "array", s |-> bytes]
JsBuffer(bytes) == [t |-> "buffer", s |-> bytes]
JsUndefined == [t |-> "undefined", s |-> <<>>]
JsNull == [t |-> "null", s |-> <<>>]

\* String(value), as parseInt and template literals apply it.
StringOf(v) ==
  IF v.t = "undefined" THEN << 117, 110, 100, 101, 102, 105, 110, 101, 100 >>
  ELSE IF v.t = "null" THEN << 110, 117, 108, 108 >>
  ELSE v.s

\* isString() of src/keyring.js and src/sequelize.js.
isString(object) == object.t = "string"

\* Numbers that parseInt yields: an integer or NaN.
Int32(n) == [nan |-> FALSE, n |-> n]
NaN == [nan |-> TRUE, n |-> 0]
isNaN(x) == x.nan
\* a === b and a > b on numbers: both are false when either side is NaN.
StrictEquals(a, b) == ~ a.nan /\ ~ b.nan /\ a.n = b.n
GreaterThan(a, b) == ~ a.nan /\ ~ b.nan /\ a.n > b.n

IsDigit(c) == c >= 48 /\ c <= 57
IsSpace(c) == c = 32 \/ c = 9 \/ c = 10 \/ c = 13

RECURSIVE SkipSpaces(_)
SkipSpaces(chars) ==
  IF chars # <<>> /\ IsSpace(Head(chars)) THEN SkipSpaces(Tail(chars)) ELSE chars

RECURSIVE DigitsValue(_, _)
DigitsValue(chars, acc) ==
  IF chars # <<>> /\ IsDigit(Head(chars))
  THEN LET next == (acc * 10) + (Head(chars) - 48)
           rest == Tail(chars)
       IN  IF Force(next) /\ Force(rest) THEN DigitsValue(rest, next) ELSE 0
  ELSE acc

\* parseInt(text, 10): leading white space, an optional sign, then the
\* longest run of digits; whatever follows the digits is ignored.
parseInt(text) ==
  LET t == SkipSpaces(text)
      neg == t # <<>> /\ Head(t) = 45
      body == IF t # <<>> /\ (Head(t) = 45 \/ Head(t) = 43) THEN Tail(t) ELSE t
  IN  IF body = <<>> \/ ~ IsDigit(Head(body)) THEN NaN
      ELSE Int32(IF neg THEN 0 - DigitsValue(body, 0) ELSE DigitsValue(body, 0))

RECURSIVE DecimalDigits(_)
DecimalDigits(n) ==
  IF n < 10 THEN << 48 + n >>
  ELSE DecimalDigits(n \div 10) \o << 48 + (n % 10) >>

\* String(number) for the numbers above.
NumberToString(x) ==
  IF x.nan THEN << 78, 97, 78 >>
  ELSE IF x.n < 0 THEN << 45 >> \o DecimalDigits(0 - x.n)
  ELSE DecimalDigits(x.n)

(***************************************************************************)
(* Library primitives: hashes and the block cipher                         *)
(***************************************************************************)
\* A checksum modulo the prime 65521 of the bytes weighted by position: it
\* changes whenever one byte of the input changes.
Checksum(bytes) ==
  LET b == bytes
      w == SubSeq([i \in 1..Len(b) |-> (i * (b[i] + 1)) % 65521], 1, Len(b))
  IN  IF Force(b) /\ Force(w)
      THEN (SumRange(w, 1, Len(w)) + (Len(w) * 257)) % 65521
      ELSE 0

\* n bytes that determine h.
Spread(h, n) ==
  [i \in 1..n |-> IF i = 1 THEN h % 256
                  ELSE IF i = 2 THEN h \div 256
                  ELSE ((h * i) + i) % 256]

XorBytes(a, b) == [i \in 1..Len(a) |-> BitXor(a[i], b[i])]

KeyByte(key, i) == key[1 + ((i - 1) % Len(key))]

\* The block cipher: for each key a bijection on 16-byte blocks.
BlockEncrypt(key, block) ==
  [i \in 1..16 |-> (block[i] + KeyByte(key, i) + SumSeq(key) + i) % 256]

BlockDecrypt(key, block) ==
  [i \in 1..16 |->
     (block[i] + 256 - ((KeyByte(key, i) + SumSeq(key) + i) % 256)) % 256]

\* PKCS#7: 1..16 bytes, each holding the number of bytes added.
Pkcs7Pad(bytes) ==
  LET n == 16 - (Len(bytes) % 16) IN bytes \o [i \in 1..n |-> n]

Pkcs7Valid(bytes) ==
  /\ Len(bytes) >= 16
  /\ LET n == bytes[Len(bytes)]
     IN  /\ n >= 1
         /\ n <= 16
         /\ \A i \in (Len(bytes) - n + 1)..Len(bytes) : bytes[i] = n

Pkcs7Unpad(bytes) == SubSeq(bytes, 1, Len(bytes) - bytes[Len(bytes)])

RECURSIVE CbcEncryptBlocks(_, _, _)
CbcEncryptBlocks(key, prev, plain) ==
  IF plain = <<>> THEN <<>>
  ELSE LET c == SubSeq(BlockEncrypt(key, XorBytes(SubSeq(plain, 1, 16), prev)), 1, 16)
           rest == SubSeq(plain, 17, Len(plain))
       IN  IF Force(c) /\ Force(rest)
           THEN c \o CbcEncryptBlocks(key, c, rest)
           ELSE <<>>

RECURSIVE CbcDecryptBlocks(_, _, _)
CbcDecryptBlocks(key, prev, data) ==
  IF data = <<>> THEN <<>>
  ELSE LET c == SubSeq(data, 1, 16)
           rest == SubSeq(data, 17, Len(data))
       IN  IF Force(c) /\ Force(rest)
           THEN SubSeq(XorBytes(BlockDecrypt(key, c), prev), 1, 16)
                \o CbcDecryptBlocks(key, c, rest)
           ELSE <<>>

(***************************************************************************)
(* src/keyring.js                                                          *)
(***************************************************************************)
\* The outcome of a call: err = "" and the returned value, or the kind of
\* the error thrown; trace lists the library calls made, in order.
Return(v, trace) == [err |-> "", ret |-> v, trace |-> trace]
Throw(kind, trace) == [err |-> kind, ret |-> JsUndefined, trace |-> trace]

\* An option the caller did not give.
Absent == "<absent>"

\* defaultKeyringOptions.
defaultKeyringOptions == [encryption |-> "aes-128-cbc"]

SupportedAlgorithms == {"aes-128-cbc", "aes-192-cbc", "aes-256-cbc"}

\* Names every object inherits from Object.prototype.
InheritedProperties == {"toString", "constructor"}

\* keySizes[name]: the size, undefined (falsy) for an unknown name, or the
\* inherited function (truthy, NaN in arithmetic) for an inherited name.
keySizes(name) ==
  IF name = "aes-128-cbc" THEN [truthy |-> TRUE, num |-> Int32(16)]
  ELSE IF name = "aes-192-cbc" THEN [truthy |-> TRUE, num |-> Int32(24)]
  ELSE IF name = "aes-256-cbc" THEN [truthy |-> TRUE, num |-> Int32(32)]
  ELSE IF name \in InheritedProperties THEN [truthy |-> TRUE, num |-> NaN]
  ELSE [truthy |-> FALSE, num |-> NaN]

\* crypto.createHmac("sha256", key).update(message).digest(): 32 bytes.
hmacDigest(key, message) == Spread(Checksum(key \o message), 32)

\* The loop of verifySignature: accum |= expected[i] ^ actual[i].
RECURSIVE VerifyAccum(_, _, _, _)
VerifyAccum(expected, actual, i, accum) ==
  IF i > Len(expected) THEN accum
  ELSE LET next == BitOr(accum, BitXor(expected[i], actual[i]))
       IN  IF Force(next) THEN VerifyAccum(expected, actual, i + 1, next) ELSE 0

verifySignature(expected, actual) ==
  LET e == expected
      a == actual
  IN  IF Force(e) /\ Force(a)
      THEN IF Len(e) # Len(a) THEN FALSE ELSE VerifyAccum(e, a, 1, 0) = 0
      ELSE FALSE

HexDigit(v) == IF v < 10 THEN 48 + v ELSE 97 + (v - 10)

HexEncode(bytes) ==
  LET b == bytes
  IN  IF Force(b)
      THEN SubSeq([c \in 1..(2 * Len(b)) |->
                     IF c % 2 = 1 THEN HexDigit(b[(c + 1) \div 2] \div 16)
                     ELSE HexDigit(b[c \div 2] % 16)],
                  1, 2 * Len(b))
      ELSE <<>>

\* crypto.createHash("sha1").update(text).digest("hex"): 40 hex digits.
Sha1Hex(text) == HexEncode(Spread(Checksum(Utf8Encode(text)), 20))

\* sha1 with the two checks in the other order.
sha1TypeFirst(value, options) ==
  IF ~ isString(value) THEN Throw("InvalidInputType", <<>>)
  ELSE IF options.digestSalt.t = "undefined" THEN Throw("MissingDigestSalt", <<>>)
  ELSE Return(JsString(Sha1Hex(value.s \o StringOf(options.digestSalt))), <<>>)

sha1(value, options) ==
  IF options.digestSalt.t = "undefined" THEN Throw("MissingDigestSalt", <<>>)
  ELSE IF ~ isString(value) THEN Throw("InvalidInputType", <<>>)
  ELSE Return(JsString(Sha1Hex(value.s \o StringOf(options.digestSalt))), <<>>)

\* Buffer.from(value) as encrypt calls it.
BufferFrom(value) ==
  IF value.t = "string" THEN Return(Utf8Encode(value.s), <<>>)
  ELSE IF value.t \in {"array", "buffer"} THEN Return(value.s, <<>>)
  ELSE Throw("TypeError", <<>>)

keyBuffer(value) ==
  IF value.t = "buffer" THEN Return(value.s, <<>>)
  ELSE IF value.t = "string" THEN Return(Base64Decode(value.s), <<>>)
  ELSE Throw("TypeError", <<>>)

\* A property name that is an array index: the canonical numeral of a
\* non-negative integer.
IsArrayIndex(name) ==
  LET v == parseInt(name) IN ~ v.nan /\ v.n >= 0 /\ NumberToString(v) = name

RECURSIVE SortByIndex(_)
SortByIndex(entries) ==
  IF entries = <<>> THEN <<>>
  ELSE LET m == CHOOSE i \in 1..Len(entries) :
                  \A j \in 1..Len(entries) :
                    parseInt(entries[i].k).n <= parseInt(entries[j].k).n
       IN  << entries[m] >>
           \o SortByIndex(SubSeq(entries, 1, m - 1)
                          \o SubSeq(entries, m + 1, Len(entries)))

\* Object.keys(object), as entries: array indexes in ascending order, then
\* the other names in the order they were added.
ObjectKeys(object) ==
  SortByIndex(SelectSeq(object, LAMBDA e : IsArrayIndex(e.k)))
  \o SelectSeq(object, LAMBDA e : ~ IsArrayIndex(e.k))

\* normalizeKeys with the two halves of the secret the other way round.
RECURSIVE normalizeFromSwapped(_, _, _)
normalizeFromSwapped(entries, keySize, buffer) ==
  IF entries = <<>> THEN Return(buffer, <<>>)
  ELSE LET secret == keyBuffer(Head(entries).v)
           expectedKeySize == IF keySize.nan THEN NaN ELSE Int32(keySize.n * 2)
       IN  IF secret.err # "" THEN secret
           ELSE IF ~ StrictEquals(Int32(Len(secret.ret)), expectedKeySize)
           THEN Throw("WrongKeyLength", <<>>)
           ELSE normalizeFromSwapped(
                  Tail(entries), keySize,
                  Append(buffer,
                         [id |-> parseInt(Head(entries).k),
                          encryptionKey |-> Slice(secret.ret, 0, keySize.n),
                          signingKey |-> SliceFrom(secret.ret, keySize.n)]))

\* normalizeKeys comparing the secret's length with keySize, not keySize * 2.
RECURSIVE normalizeFromHalf(_, _, _)
normalizeFromHalf(entries, keySize, buffer) ==
  IF entries = <<>> THEN Return(buffer, <<>>)
  ELSE LET secret == keyBuffer(Head(entries).v)
       IN  IF secret.err # "" THEN secret
           ELSE IF ~ StrictEquals(Int32(Len(secret.ret)), keySize)
           THEN Throw("WrongKeyLength", <<>>)
           ELSE normalizeFromHalf(
                  Tail(entries), keySize,
                  Append(buffer,
                         [id |-> parseInt(Head(entries).k),
                          encryptionKey |-> SliceFrom(secret.ret, keySize.n),
                          signingKey |-> Slice(secret.ret, 0, keySize.n)]))

RECURSIVE normalizeFrom(_, _, _)
normalizeFrom(entries, keySize, buffer) ==
  IF entries = <<>> THEN Return(buffer, <<>>)
  ELSE LET secret == keyBuffer(Head(entries).v)
           expectedKeySize == IF keySize.nan THEN NaN ELSE Int32(keySize.n * 2)
       IN  IF secret.err # "" THEN secret
           ELSE IF ~ StrictEquals(Int32(Len(secret.ret)), expectedKeySize)
           THEN Throw("WrongKeyLength", <<>>)
           ELSE normalizeFrom(
                  Tail(entries), keySize,
                  Append(buffer,
                         [id |-> parseInt(Head(entries).k),
                          encryptionKey |-> SliceFrom(secret.ret, keySize.n),
                          signingKey |-> Slice(secret.ret, 0, keySize.n)]))

normalizeKeys(keys, keySize) == normalizeFrom(ObjectKeys(keys), keySize, <<>>)

\* validateKeyring without the check of the length.
validateKeyringIds(keys) ==
  IF \E i \in 1..Len(keys) : isNaN(keys[i].id)
  THEN Throw("NonIntegerKeyId", <<>>)
  ELSE Return(JsUndefined, <<>>)

validateKeyring(keys) ==
  IF Len(keys) = 0 THEN Throw("EmptyKeyring", <<>>)
  ELSE IF \E i \in 1..Len(keys) : isNaN(keys[i].id)
  THEN Throw("NonIntegerKeyId", <<>>)
  ELSE Return(JsUndefined, <<>>)

\* keys.reduce((a, b) => (a.id > b.id ? a : b)).
RECURSIVE reduceCurrent(_, _)
reduceCurrent(a, rest) ==
  IF rest = <<>> THEN a
  ELSE reduceCurrent(IF GreaterThan(a.id, Head(rest).id) THEN a ELSE Head(rest),
                     Tail(rest))

\* currentKey with the comparison turned around: a.id < b.id ? a : b.
RECURSIVE reduceLowest(_, _)
reduceLowest(a, rest) ==
  IF rest = <<>> THEN a
  ELSE reduceLowest(IF GreaterThan(Head(rest).id, a.id) THEN a ELSE Head(rest),
                    Tail(rest))

currentKeyLowest(keys) == reduceLowest(Head(keys), Tail(keys))

currentKey(keys) == reduceCurrent(Head(keys), Tail(keys))

findKey(keys, id) ==
  LET hits == SelectSeq(keys, LAMBDA key :
                StrictEquals(parseInt(NumberToString(key.id)),
                             parseInt(StringOf(id))))
  IN  IF hits # <<>> THEN Return(Head(hits), <<>>)
      ELSE Throw("UnknownKeyId", <<>>)

\* crypto.createCipheriv / createDecipheriv: the library checks the sizes.
CipherivError(encryption, key, iv) ==
  IF ~ StrictEquals(Int32(Len(key)), keySizes(encryption).num)
  THEN "InvalidKeyLength"
  ELSE IF Len(iv) # 16 THEN "InvalidIV"
  ELSE ""

\* encrypt with the two sub-keys used the other way round.
encryptKeysSwapped(keys, options, message, iv) ==
  LET key == currentKey(keys)
      cipherErr == CipherivError(options.encryption, key.signingKey, iv)
      plain == BufferFrom(message)
      encrypted == CbcEncryptBlocks(key.signingKey, iv, Pkcs7Pad(plain.ret))
      hmac == hmacDigest(key.encryptionKey, iv \o encrypted)
      returnValue == JsString(Base64Encode(hmac \o iv \o encrypted))
      digest == sha1(message, [digestSalt |-> options.digestSalt])
  IN  IF cipherErr # "" THEN Throw(cipherErr, <<>>)
      ELSE IF plain.err # "" THEN plain
      ELSE IF digest.err # "" THEN digest
      ELSE Return(<< returnValue, key.id, digest.ret >>, <<>>)

\* encrypt with the tag computed over the ciphertext alone, without the nonce.
encryptTagOfCiphertext(keys, options, message, iv) ==
  LET key == currentKey(keys)
      cipherErr == CipherivError(options.encryption, key.encryptionKey, iv)
      plain == BufferFrom(message)
      encrypted == CbcEncryptBlocks(key.encryptionKey, iv, Pkcs7Pad(plain.ret))
      hmac == hmacDigest(key.signingKey, encrypted)
      returnValue == JsString(Base64Encode(hmac \o iv \o encrypted))
      digest == sha1(message, [digestSalt |-> options.digestSalt])
  IN  IF cipherErr # "" THEN Throw(cipherErr, <<>>)
      ELSE IF plain.err # "" THEN plain
      ELSE IF digest.err # "" THEN digest
      ELSE Return(<< returnValue, key.id, digest.ret >>, <<>>)

\* encrypt with the digest taken of the message alone, without the salt.
encryptDigestUnsalted(keys, options, message, iv) ==
  LET key == currentKey(keys)
      cipherErr == CipherivError(options.encryption, key.encryptionKey, iv)
      plain == BufferFrom(message)
      encrypted == CbcEncryptBlocks(key.encryptionKey, iv, Pkcs7Pad(plain.ret))
      hmac == hmacDigest(key.signingKey, iv \o encrypted)
      returnValue == JsString(Base64Encode(hmac \o iv \o encrypted))
      digest == sha1(message, [digestSalt |-> JsString(<<>>)])
  IN  IF cipherErr # "" THEN Throw(cipherErr, <<>>)
      ELSE IF plain.err # "" THEN plain
      ELSE IF digest.err # "" THEN digest
      ELSE Return(<< returnValue, key.id, digest.ret >>, <<>>)

encrypt(keys, options, message, iv) ==
  LET key == currentKey(keys)
      cipherErr == CipherivError(options.encryption, key.encryptionKey, iv)
      plain == BufferFrom(message)
      encrypted == CbcEncryptBlocks(key.encryptionKey, iv, Pkcs7Pad(plain.ret))
      hmac == hmacDigest(key.signingKey, iv \o encrypted)
      returnValue == JsString(Base64Encode(hmac \o iv \o encrypted))
      digest == sha1(message, [digestSalt |-> options.digestSalt])
  IN  IF cipherErr # "" THEN Throw(cipherErr, <<>>)
      ELSE IF plain.err # "" THEN plain
      ELSE IF digest.err # "" THEN digest
      ELSE Return(<< returnValue, key.id, digest.ret >>, <<>>)

decrypt(key, options, message) ==
  LET decoded == Base64Decode(message.s)
      hmac == Slice(decoded, 0, 32)
      iv == Slice(decoded, 32, 48)
      encrypted == SliceFrom(decoded, 48)
      cipherErr == CipherivError(options.encryption, key.encryptionKey, iv)
      padded == CbcDecryptBlocks(key.encryptionKey, iv, encrypted)
      expectedHmac == hmacDigest(key.signingKey, iv \o encrypted)
  IN  IF cipherErr # "" THEN Throw(cipherErr, << "createDecipheriv" >>)
      ELSE IF Len(encrypted) = 0 \/ Len(encrypted) % 16 # 0
      THEN Throw("WrongFinalBlockLength",
                 << "createDecipheriv", "update", "final" >>)
      ELSE IF ~ Pkcs7Valid(padded)
      THEN Throw("BadDecrypt", << "createDecipheriv", "update", "final" >>)
      ELSE IF ~ verifySignature(expectedHmac, hmac)
      THEN Throw("AuthenticationFailed",
                 << "createDecipheriv", "update", "final", "hmacDigest",
                    "verifySignature" >>)
      ELSE Return(JsString(Utf8Decode(Pkcs7Unpad(padded))),
                  << "createDecipheriv", "update", "final", "hmacDigest",
                     "verifySignature" >>)

\* keyring without the check of options.digestSalt: the salt is looked at
\* only when a digest is computed.
keyringLazySalt(keys, options) ==
  LET merged == [encryption |-> IF options.encryption = Absent
                                THEN defaultKeyringOptions.encryption
                                ELSE options.encryption,
                 digestSalt |-> options.digestSalt]
      keySize == keySizes(merged.encryption)
      normalized == normalizeKeys(keys, keySize.num)
      validated == validateKeyring(normalized.ret)
  IN  IF ~ keySize.truthy THEN Throw("InvalidAlgorithm", <<>>)
      ELSE IF normalized.err # "" THEN normalized
      ELSE IF validated.err # "" THEN validated
      ELSE Return([keys |-> normalized.ret, options |-> merged], <<>>)

\* keyring(keys, options): err = "" and the instance (its normalized keys
\* and merged options), or the error thrown.
keyring(keys, options) ==
  LET merged == [encryption |-> IF options.encryption = Absent
                                THEN defaultKeyringOptions.encryption
                                ELSE options.encryption,
                 digestSalt |-> options.digestSalt]
      keySize == keySizes(merged.encryption)
      normalized == normalizeKeys(keys, keySize.num)
      validated == validateKeyring(normalized.ret)
  IN  IF merged.digestSalt.t = "undefined" THEN Throw("MissingDigestSalt", <<>>)
      ELSE IF ~ keySize.truthy THEN Throw("InvalidAlgorithm", <<>>)
      ELSE IF normalized.err # "" THEN normalized
      ELSE IF validated.err # "" THEN validated
      ELSE Return([keys |-> normalized.ret, options |-> merged], <<>>)

\* The four closures of the object keyring() returns.
RingEncrypt(instance, message, iv) ==
  encrypt(instance.keys, instance.options, message, iv)

RingDecrypt(instance, message, keyringId) ==
  LET key == findKey(instance.keys, keyringId)
  IN  IF key.err # "" THEN key
      ELSE decrypt(key.ret, instance.options, message)

RingDigest(instance, message) == sha1(message, instance.options)

RingCurrentId(instance) == currentKey(instance.keys).id

(***************************************************************************)
(* Inputs                                                                  *)
(***************************************************************************)
MaxKeys == 2

\* A base64 secret of n bytes.
Secret(seed, n) == JsString(Base64Encode(PatternBytes(seed, n)))

Entry(name, value) == [k |-> name, v |-> value]

\* The raw mappings a caller starts from: {}, {1: ...} for each algorithm,
\* {a: ...}, {"1abc": ..., 1: ...}, {1: <16 bytes>}, {1: ..., 2: <16 bytes>}.
InitialMappings ==
  { <<>>,
    << Entry(<< 49 >>, Secret(1, 32)) >>,
    << Entry(<< 48 >>, Secret(3, 48)) >>,
    << Entry(<< 50 >>, Secret(4, 64)) >>,
    << Entry(<< 97 >>, Secret(1, 32)) >>,
    << Entry(<< 49, 97, 98, 99 >>, Secret(2, 32)), Entry(<< 49 >>, Secret(1, 32)) >>,
    << Entry(<< 49 >>, Secret(5, 16)) >>,
    << Entry(<< 49 >>, Secret(1, 32)), Entry(<< 50 >>, Secret(5, 16)) >> }

\* Secrets of the keys added by rotation.
RotationSecrets == { Secret(6, 32) }

Options(encryption, digestSalt) ==
  [encryption |-> encryption, digestSalt |-> digestSalt]

\* The options a caller is configured with: none at all, a salt only, each
\* algorithm name with a salt or without, and a name that is no algorithm.
OptionSets ==
  { Options(Absent, JsUndefined),
    Options(Absent, JsString(<<>>)),
    Options("aes-128-cbc", JsString(<< 97 >>)),
    Options("aes-192-cbc", JsString(<<>>)),
    Options("aes-256-cbc", JsString(<< 97 >>)),
    Options("aes-256-cbc", JsUndefined),
    Options("aes-128-gcm", JsString(<<>>)),
    Options("aes-128-gcm", JsUndefined),
    Options("toString", JsString(<<>>)) }

\* "", "42", "4é" followed by U+1F600, sixteen "4", "4" followed by an
\* unpaired surrogate; and three values that are not strings: 1234, [52, 50]
\* and undefined.
Messages ==
  { JsString(<<>>),
    JsString(<< 52, 50 >>),
    JsString(<< 52, 233, 55357, 56832 >>),
    JsString([i \in 1..16 |-> 52]),
    JsString(<< 52, 55357 >>),
    JsNumber(<< 49, 50, 51, 52 >>),
    JsArray(<< 52, 50 >>),
    JsUndefined }

\* The nonces crypto.randomBytes(16) may return.
Nonces == { PatternBytes(9, 16), PatternBytes(10, 16) }

\* Key ids a caller may pass to decrypt besides the current one:
\* 2, 7, "1", "1abc", 1.5, undefined.
KeyIdInputs ==
  { JsNumber(<< 50 >>), JsNumber(<< 55 >>),
    JsString(<< 49 >>), JsString(<< 49, 97, 98, 99 >>),
    JsNumber(<< 49, 46, 53 >>), JsUndefined }

\* Envelopes that no encrypt call produced: "", "42", 48 bytes (a tag and a
\* nonce with no ciphertext) and 64 bytes.
ForeignEnvelopes ==
  { JsString(<<>>), JsString(<< 52, 50 >>),
    JsString(Base64Encode(PatternBytes(7, 48))),
    JsString(Base64Encode(PatternBytes(8, 64))) }

\* Ways to change one byte: add delta (mod 256) to the byte at pos.
TamperDeltas == { 1, 255 }

\* The byte positions changed in a decoded envelope of n bytes: the first
\* and last byte of the tag, of the nonce and of the ciphertext.
TamperPositions(n) == { 1, 32, 33, 48, 49, n }

(***************************************************************************)
(* src/sequelize.js                                                        *)
(***************************************************************************)
\* The columns setup() is given, and the attributes of the model (those of
\* the model of the tests: email has a digest attribute, secret has none).
Columns == << "email", "secret" >>

Attributes ==
  { "email", "secret", "encrypted_email", "encrypted_secret", "email_digest",
    "keyring_id", "custom_keyring_id" }

\* `encrypted_${column}` and `${column}_digest`.
EncryptedColumn(column) ==
  IF column = "email" THEN "encrypted_email" ELSE "encrypted_secret"

DigestColumn(column) ==
  IF column = "email" THEN "email_digest" ELSE "secret_digest"

\* model.options.keyring as setup() stores it, but for the keys, encryption
\* and digestSalt, which are the caller's mapping and options.
ModelOptions(keyringIdColumn) ==
  [columns |-> Columns, keyringIdColumn |-> keyringIdColumn]

\* A record just made: no attribute has a value.
NewRecord ==
  [a \in Attributes \cup { "secret_digest" } |-> JsUndefined]

\* The options beforeSave and afterFind pass to Keyring(): setup() defaults
\* encryption to "aes-128-cbc".
HookOptions(options) ==
  [encryption |-> IF options.encryption = Absent THEN "aes-128-cbc"
                  ELSE options.encryption,
   digestSalt |-> options.digestSalt]

\* A value that `||` skips.
Falsy(v) ==
  \/ v.t \in { "undefined", "null" }
  \/ v.t = "number" /\ (parseInt(v.s).nan \/ parseInt(v.s).n = 0)
  \/ v.t = "string" /\ v.s = <<>>

\* A key id as a value of a record.
IdValue(id) == JsNumber(NumberToString(id))

\* The outcome of a hook: the error thrown if any, the record as the hook
\* left it, and the columns it called encrypt or decrypt for.
HookResult(err, rec, calls) == [err |-> err, record |-> rec, calls |-> calls]

\* The writes of one pass with the key id written to keyring_id.
writeColumnDefaultId(options, rec, column, encrypted, keyringId, digest) ==
  LET written == [rec EXCEPT ![EncryptedColumn(column)] = encrypted,
                             !["keyring_id"] = keyringId]
  IN  IF DigestColumn(column) \in Attributes
      THEN [written EXCEPT ![DigestColumn(column)] = digest]
      ELSE written

\* The writes of one pass with the digest written whatever the model declares.
writeColumnDigest(options, rec, column, encrypted, keyringId, digest) ==
  [rec EXCEPT ![EncryptedColumn(column)] = encrypted,
              ![options.keyringIdColumn] = keyringId,
              ![DigestColumn(column)] = digest]

\* The writes of one pass of columns.forEach in beforeSave, given encrypted,
\* keyringId and digest: the digest is written only to a declared attribute.
writeColumn(options, rec, column, encrypted, keyringId, digest) ==
  LET written == [rec EXCEPT ![EncryptedColumn(column)] = encrypted,
                             ![options.keyringIdColumn] = keyringId]
  IN  IF DigestColumn(column) \in Attributes
      THEN [written EXCEPT ![DigestColumn(column)] = digest]
      ELSE written

\* One pass for a string value that keeps the key id the record stores.
encryptColumnStoredId(options, rec, column, result) ==
  IF result.err # "" THEN HookResult(result.err, rec, << column >>)
  ELSE HookResult("", writeColumn(options, rec, column, result.ret[1],
                                  IF Falsy(rec[options.keyringIdColumn])
                                  THEN IdValue(result.ret[2])
                                  ELSE rec[options.keyringIdColumn],
                                  result.ret[3]),
                  << column >>)

\* One pass for a string value, given what keyring.encrypt(value) did.
encryptColumn(options, rec, column, result) ==
  IF result.err # "" THEN HookResult(result.err, rec, << column >>)
  ELSE HookResult("", writeColumn(options, rec, column, result.ret[1],
                                  IdValue(result.ret[2]), result.ret[3]),
                  << column >>)

\* One pass for a value that is not a string that writes nothing.
skipColumnUnwritten(ring, options, rec, column) == HookResult("", rec, <<>>)

\* One pass for a value that is not a string: encrypted and digest stay null
\* and keyringId is record[keyringIdColumn] || keyring.currentId().
skipColumn(ring, options, rec, column) ==
  LET stored == rec[options.keyringIdColumn]
  IN  HookResult("", writeColumn(options, rec, column, JsNull,
                                 IF Falsy(stored) THEN IdValue(RingCurrentId(ring))
                                 ELSE stored,
                                 JsNull),
                 <<>>)

\* columns.forEach in beforeSave, from column i on; beforeSaveNext goes on
\* after the pass whose outcome is step.
RECURSIVE beforeSaveFrom(_, _, _, _, _, _)
RECURSIVE beforeSaveNext(_, _, _, _, _, _)
beforeSaveFrom(ring, options, rec, i, ivs, calls) ==
  IF i > Len(options.columns) THEN HookResult("", rec, calls)
  ELSE beforeSaveNext(ring, options, i, ivs, calls,
         IF isString(rec[options.columns[i]])
         THEN encryptColumn(options, rec, options.columns[i],
                RingEncrypt(ring, rec[options.columns[i]], ivs[i]))
         ELSE skipColumn(ring, options, rec, options.columns[i]))

beforeSaveNext(ring, options, i, ivs, calls, step) ==
  LET done == step
  IN  IF Force(done) /\ done.err # ""
      THEN HookResult(done.err, done.record, calls \o done.calls)
      ELSE beforeSaveFrom(ring, options, done.record, i + 1, ivs,
                          calls \o done.calls)

\* beforeSave(record) once Keyring(keys, ...) did what built says.
beforeSaveWith(built, options, rec, ivs) ==
  LET ring == built
  IN  IF Force(ring) /\ ring.err # "" THEN HookResult(ring.err, rec, <<>>)
      ELSE beforeSaveFrom(ring.ret, options, rec, 1, ivs, <<>>)

\* beforeSave(record): ivs are the nonces of the encrypt calls, by column.
beforeSave(rec, options, keys, keyringOptions, ivs) ==
  beforeSaveWith(keyring(keys, HookOptions(keyringOptions)), options, rec, ivs)

\* One pass of columns.forEach in afterFind for a string encrypted_<column>,
\* given what keyring.decrypt did.
decryptColumn(rec, column, result) ==
  IF result.err # "" THEN HookResult(result.err, rec, << column >>)
  ELSE HookResult("", [rec EXCEPT ![column] = result.ret], << column >>)

\* columns.forEach in afterFind, from column i on; afterFindNext goes on
\* after the pass whose outcome is step.
RECURSIVE afterFindFrom(_, _, _, _, _)
RECURSIVE afterFindNext(_, _, _, _, _)
afterFindFrom(ring, options, rec, i, calls) ==
  IF i > Len(options.columns) THEN HookResult("", rec, calls)
  ELSE afterFindNext(ring, options, i, calls,
         IF isString(rec[EncryptedColumn(options.columns[i])])
         THEN decryptColumn(rec, options.columns[i],
                RingDecrypt(ring, rec[EncryptedColumn(options.columns[i])],
                            rec[options.keyringIdColumn]))
         ELSE HookResult("", [rec EXCEPT ![options.columns[i]] = JsNull], <<>>))

afterFindNext(ring, options, i, calls, step) ==
  LET done == step
  IN  IF Force(done) /\ done.err # ""
      THEN HookResult(done.err, done.record, calls \o done.calls)
      ELSE afterFindFrom(ring, options, done.record, i + 1, calls \o done.calls)

\* afterFind(record) once Keyring(keys, ...) did what built says.
afterFindWith(built, options, rec) ==
  LET ring == built
  IN  IF Force(ring) /\ ring.err # "" THEN HookResult(ring.err, rec, <<>>)
      ELSE afterFindFrom(ring.ret, options, rec, 1, <<>>)

\* afterFind(record) for one record.
afterFind(rec, options, keys, keyringOptions) ==
  afterFindWith(keyring(keys, HookOptions(keyringOptions)), options, rec)

\* What the database keeps of a record: email and secret are virtual.
Persisted(rec) ==
  [rec EXCEPT !["email"] = JsUndefined, !["secret"] = JsUndefined]

(***************************************************************************)
(* State: a caller that owns a raw mapping and its options, builds an      *)
(* instance with keyring() and calls the instance's functions one at a     *)
(* time, storing or dropping what each call returned.                      *)
(***************************************************************************)
VARIABLES
  keys,      \* the caller's raw mapping, entries in the order they were added
  config,    \* the options the caller passes to keyring()
  built,     \* the raw mapping the latest keyring() call was given
  instance,  \* the outcome of the latest keyring(keys, config) call
  saved,     \* the record the caller stored after an encrypt call, if any
  last,      \* the call that just returned: name, arguments and outcome
  model,     \* the options setup() stored on the Sequelize model
  record,    \* the attributes of the Sequelize record in memory
  row        \* the attributes of the record as the database stores them

vars == << keys, config, built, instance, saved, last, model, record, row >>

Idle == [op |-> "idle"]

Live == instance.err = ""

Init ==
  /\ keys \in InitialMappings
  /\ config \in OptionSets
  /\ built = keys
  /\ instance = keyring(keys, config)
  /\ last = [op |-> "keyring", keys |-> keys, options |-> config, out |-> instance]
  /\ saved = <<>>
  /\ model = ModelOptions("keyring_id")
  /\ record = NewRecord
  /\ row = NewRecord

\* The caller builds a new instance from its mapping as it is now.
Rebuild ==
  /\ last = Idle
  /\ built' = keys
  /\ instance' = keyring(keys, config)
  /\ last' = [op |-> "keyring", keys |-> keys, options |-> config,
              out |-> instance']
  /\ UNCHANGED << keys, config, saved, model, record, row >>

\* The integer ids of a raw mapping.
MappingIds(object) ==
  { parseInt(object[i].k).n :
      i \in { j \in 1..Len(object) : ~ parseInt(object[j].k).nan } }

SetMax(S) == CHOOSE x \in S : \A y \in S : y <= x

\* AddKey on a mapping that the instance reads at every call: the instance
\* follows the mapping.
AddKeySeen(secret) ==
  /\ last = Idle
  /\ Len(keys) < MaxKeys
  /\ LET id == IF MappingIds(keys) = {} THEN 0 ELSE SetMax(MappingIds(keys)) + 1
     IN  keys' = Append(keys, Entry(NumberToString(Int32(id)), secret))
  /\ built' = keys'
  /\ instance' = keyring(keys', config)
  /\ UNCHANGED << config, saved, last, model, record, row >>

\* Key rotation: the caller adds a key whose id is higher than every id of
\* the mapping.
AddKey(secret) ==
  /\ last = Idle
  /\ Len(keys) < MaxKeys
  /\ LET id == IF MappingIds(keys) = {} THEN 0 ELSE SetMax(MappingIds(keys)) + 1
     IN  keys' = Append(keys, Entry(NumberToString(Int32(id)), secret))
  /\ UNCHANGED << config, built, instance, saved, last, model, record, row >>

Encrypt(message, iv) ==
  /\ last = Idle
  /\ Live
  /\ last' = [op |-> "encrypt", message |-> message, iv |-> iv,
              out |-> RingEncrypt(instance.ret, message, iv)]
  /\ UNCHANGED << keys, config, built, instance, saved, model, record, row >>

\* The caller stores the envelope, key id and digest encrypt returned (with, for
\* the properties below, the message and the instance that encrypted it).
Save ==
  /\ last.op = "encrypt"
  /\ last.out.err = ""
  /\ saved' = << [envelope |-> last.out.ret[1],
                  keyringId |-> last.out.ret[2],
                  digest |-> last.out.ret[3],
                  message |-> last.message,
                  ring |-> instance.ret] >>
  /\ last' = Idle
  /\ UNCHANGED << keys, config, built, instance, model, record, row >>

\* The caller is done with what the last call returned or threw.
Discard ==
  /\ last # Idle
  /\ last' = Idle
  /\ UNCHANGED << keys, config, built, instance, saved, model, record, row >>

DecryptCall(envelope, keyringId, kind, pos) ==
  /\ last' = [op |-> "decrypt", envelope |-> envelope, keyringId |-> keyringId,
              kind |-> kind, pos |-> pos,
              out |-> RingDecrypt(instance.ret, envelope, keyringId)]
  /\ UNCHANGED << keys, config, built, instance, saved, model, record, row >>

\* decrypt of the stored envelope with the id stored with it.
DecryptSaved ==
  /\ last = Idle
  /\ Live
  /\ saved # <<>>
  /\ DecryptCall(saved[1].envelope,
                 JsNumber(NumberToString(saved[1].keyringId)), "saved", 0)

\* decrypt of any envelope with any id.
DecryptWith(envelope, keyringId) ==
  /\ last = Idle
  /\ Live
  /\ DecryptCall(envelope, keyringId, "any", 0)

Tampered(bytes, pos, delta) ==
  [bytes EXCEPT ![pos] = (bytes[pos] + delta) % 256]

\* decrypt of the stored envelope with one byte changed, with the stored id.
DecryptTampered(pos, delta) ==
  /\ last = Idle
  /\ Live
  /\ saved # <<>>
  /\ pos \in 1..Len(Base64Decode(saved[1].envelope.s))
  /\ DecryptCall(
       JsString(Base64Encode(Tampered(Base64Decode(saved[1].envelope.s), pos, delta))),
       JsNumber(NumberToString(saved[1].keyringId)), "tampered", pos)

CurrentId ==
  /\ last = Idle
  /\ Live
  /\ last' = [op |-> "currentId", out |-> Return(RingCurrentId(instance.ret), <<>>)]
  /\ UNCHANGED << keys, config, built, instance, saved, model, record, row >>

Digest(message) ==
  /\ last = Idle
  /\ Live
  /\ last' = [op |-> "digest", message |-> message,
              out |-> RingDigest(instance.ret, message)]
  /\ UNCHANGED << keys, config, built, instance, saved, model, record, row >>

\* The digestSalt values sha1 is called with: undefined, "" and "a".
DigestSalts == { JsUndefined, JsString(<<>>), JsString(<< 97 >>) }

\* A call of the exported sha1(value, options).
Sha1(message, digestSalt) ==
  /\ last = Idle
  /\ last' = [op |-> "sha1", message |-> message, digestSalt |-> digestSalt,
              out |-> sha1(message, [digestSalt |-> digestSalt])]
  /\ UNCHANGED << keys, config, built, instance, saved, model, record, row >>

Next ==
  \/ Rebuild
  \/ \E secret \in RotationSecrets : AddKey(secret)
  \/ \E message \in Messages, iv \in Nonces : Encrypt(message, iv)
  \/ Save
  \/ Discard
  \/ DecryptSaved
  \/ \E envelope \in ForeignEnvelopes \cup { saved[j].envelope : j \in 1..Len(saved) },
        keyringId \in KeyIdInputs
                      \cup (IF Live
                            THEN { JsNumber(NumberToString(RingCurrentId(instance.ret))) }
                            ELSE {}) :
       DecryptWith(envelope, keyringId)
  \/ \E delta \in TamperDeltas :
       \E pos \in TamperPositions(IF saved # <<>>
                                  THEN Len(Base64Decode(saved[1].envelope.s))
                                  ELSE 0) :
         DecryptTampered(pos, delta)
  \/ CurrentId
  \/ \E message \in Messages : Digest(message)
  \/ \E message \in Messages, digestSalt \in DigestSalts : Sha1(message, digestSalt)

Spec == Init /\ [][Next]_vars

(***************************************************************************)
(* State, continued: a Sequelize model set up with the caller's mapping    *)
(* and options, one record of it in memory and its row in the database.    *)
(***************************************************************************)
\* The mapping and the options a model is set up with: the default
\* aes-128-cbc with {1: ...}, with {"1abc": ..., 1: ...} and with {};
\* aes-128-cbc named, with a salt; aes-192-cbc with {0: ...}; and a setup
\* with no digestSalt.
Setup(mapping, options) == [keys |-> mapping, options |-> options]

ModelSetups ==
  { Setup(<< Entry(<< 49 >>, Secret(1, 32)) >>, Options(Absent, JsString(<<>>))),
    Setup(<< Entry(<< 49, 97, 98, 99 >>, Secret(2, 32)),
             Entry(<< 49 >>, Secret(1, 32)) >>, Options(Absent, JsString(<<>>))),
    Setup(<<>>, Options(Absent, JsString(<<>>))),
    Setup(<< Entry(<< 49 >>, Secret(1, 32)) >>,
          Options("aes-128-cbc", JsString(<< 97 >>))),
    Setup(<< Entry(<< 48 >>, Secret(3, 48)) >>,
          Options("aes-192-cbc", JsString(<<>>))),
    Setup(<< Entry(<< 49 >>, Secret(1, 32)) >>, Options(Absent, JsUndefined)) }

KeyringIdColumns == { "keyring_id", "custom_keyring_id" }

\* keyringIdColumn as setup() stores it: "keyring_id" when the caller gives
\* none.
SetupKeyringIdColumn(given) == IF given = Absent THEN "keyring_id" ELSE given

\* The values a caller assigns to email and secret: "42", "4" followed by an
\* unpaired surrogate, null and 1234.
ColumnValues ==
  { JsString(<< 52, 50 >>), JsString(<< 52, 55357 >>), JsNull,
    JsNumber(<< 49, 50, 51, 52 >>) }

\* The nonces of the encrypt calls of one save, by column.
NonceChoices == { << PatternBytes(9, 16), PatternBytes(10, 16) >> }

InitSequelize ==
  /\ \E setup \in ModelSetups : keys = setup.keys /\ config = setup.options
  /\ built = keys
  /\ instance = keyring(keys, HookOptions(config))
  /\ saved = <<>>
  /\ last = Idle
  /\ model \in { ModelOptions(SetupKeyringIdColumn(given)) :
                   given \in { Absent, "custom_keyring_id" } }
  /\ record = NewRecord
  /\ row = NewRecord

\* record[column] = value.
SetColumn(column, value) ==
  /\ last = Idle
  /\ record[column] # value
  /\ record' = [record EXCEPT ![column] = value]
  /\ UNCHANGED << keys, config, built, instance, saved, last, model, row >>

\* record.save(): beforeSave runs, and unless it throws the row is written.
SaveRecord(ivs) ==
  /\ last = Idle
  /\ last' = [op |-> "beforeSave", before |-> record, ivs |-> ivs,
              out |-> beforeSave(record, model, keys, config, ivs)]
  /\ record' = last'.out.record
  /\ row' = IF last'.out.err = "" THEN Persisted(last'.out.record) ELSE row
  /\ UNCHANGED << keys, config, built, instance, saved, model >>

\* Model.findOne(): the record is made from the row and afterFind runs.
LoadRecord ==
  /\ last = Idle
  /\ row # NewRecord
  /\ last' = [op |-> "afterFind", before |-> row,
              out |-> afterFind(row, model, keys, config)]
  /\ record' = last'.out.record
  /\ UNCHANGED << keys, config, built, instance, saved, model, row >>

NextSequelize ==
  \/ \E column \in { "email", "secret" }, value \in ColumnValues :
       SetColumn(column, value)
  \/ \E ivs \in NonceChoices : SaveRecord(ivs)
  \/ LoadRecord
  \/ \E secret \in RotationSecrets : AddKey(secret)
  \/ Discard

SpecSequelize == InitSequelize /\ [][NextSequelize]_vars

(***************************************************************************)
(* State, continued: the same model with an operator who adds keys and     *)
(* removes the keys that the stored record does not reference.             *)
(***************************************************************************)
\* Ids are handed out up to MaxId.
MaxId == 3

RemovalSetups ==
  { Setup(<< Entry(<< 49 >>, Secret(1, 32)) >>, Options(Absent, JsString(<<>>))),
    Setup(<< Entry(<< 49, 97, 98, 99 >>, Secret(2, 32)),
             Entry(<< 49 >>, Secret(1, 32)) >>, Options(Absent, JsString(<<>>))) }

\* The values a caller assigns: "42" and null.
RemovalValues == { JsString(<< 52, 50 >>), JsNull }

InitRemoval ==
  /\ \E setup \in RemovalSetups : keys = setup.keys /\ config = setup.options
  /\ built = keys
  /\ instance = keyring(keys, HookOptions(config))
  /\ saved = <<>>
  /\ last = Idle
  /\ model = ModelOptions(SetupKeyringIdColumn(Absent))
  /\ record = NewRecord
  /\ row = NewRecord

\* new Model(): a record with no attribute set; saving it stores it.
CreateRecord ==
  /\ last = Idle
  /\ record # NewRecord
  /\ record' = NewRecord
  /\ UNCHANGED << keys, config, built, instance, saved, last, model, row >>

\* The stored record holds the id that the name of a mapping entry gives.
IdStored(name) ==
  /\ row[model.keyringIdColumn].t = "number"
  /\ parseInt(name).n = parseInt(row[model.keyringIdColumn].s).n

\* delete keys[name] for the i-th entry, whose id no stored record holds.
RemoveKey(i) ==
  /\ last = Idle
  /\ ~ IdStored(keys[i].k)
  /\ keys' = SubSeq(keys, 1, i - 1) \o SubSeq(keys, i + 1, Len(keys))
  /\ last' = [op |-> "removeKey", before |-> keys, name |-> keys[i].k]
  /\ UNCHANGED << config, built, instance, saved, model, record, row >>

NextRemoval ==
  \/ \E column \in { "email", "secret" }, value \in RemovalValues :
       SetColumn(column, value)
  \/ CreateRecord
  \/ \E ivs \in NonceChoices : SaveRecord(ivs)
  \/ LoadRecord
  \/ \E secret \in RotationSecrets :
       (\A id \in MappingIds(keys) : id < MaxId) /\ AddKey(secret)
  \/ \E i \in 1..Len(keys) : RemoveKey(i)
  \/ Discard

SpecRemoval == InitRemoval /\ [][NextRemoval]_vars

(***************************************************************************)
(* State, continued: one call of verifySignature, statement by statement.  *)
(* last holds the arguments, the position in the function (pc), the loop   *)
(* index i, accum and the value returned.                                  *)
(***************************************************************************)
MaxTagLen == 2

TagBytes == { 0, 1, 128, 255 }

\* The buffers handed to verifySignature: up to MaxTagLen bytes.
Tags == UNION { [1..n -> TagBytes] : n \in 0..MaxTagLen }

InitVerify ==
  /\ keys = <<>>
  /\ config = Options(Absent, JsString(<<>>))
  /\ built = keys
  /\ instance = keyring(keys, config)
  /\ saved = <<>>
  /\ last = Idle
  /\ model = ModelOptions(SetupKeyringIdColumn(Absent))
  /\ record = NewRecord
  /\ row = NewRecord

InVerify(pc) == last.op = "verifySignature" /\ last.pc = pc

\* verifySignature(expected, actual) is entered: let accum = 0.
VerifyCall(expected, actual) ==
  /\ last = Idle
  /\ last' = [op |-> "verifySignature", pc |-> "length", expected |-> expected,
              actual |-> actual, i |-> 0, accum |-> 0, ret |-> FALSE]
  /\ UNCHANGED << keys, config, built, instance, saved, model, record, row >>

\* if (expected.length !== actual.length) return false.
VerifyLength ==
  /\ InVerify("length")
  /\ last' = IF Len(last.expected) # Len(last.actual)
             THEN [last EXCEPT !.pc = "done", !.ret = FALSE]
             ELSE [last EXCEPT !.pc = "loop"]
  /\ UNCHANGED << keys, config, built, instance, saved, model, record, row >>

\* One pass of the loop that returns as soon as a byte pair differs.
VerifyStepEarly ==
  /\ InVerify("loop")
  /\ last.i < Len(last.expected)
  /\ last' = IF last.expected[last.i + 1] # last.actual[last.i + 1]
             THEN [last EXCEPT !.pc = "done", !.ret = FALSE]
             ELSE [last EXCEPT !.i = last.i + 1]
  /\ UNCHANGED << keys, config, built, instance, saved, model, record, row >>

\* One pass of the loop: accum |= expected[i] ^ actual[i]; i++.
VerifyStep ==
  /\ InVerify("loop")
  /\ last.i < Len(last.expected)
  /\ last' = [last EXCEPT
                !.accum = BitOr(last.accum,
                                BitXor(last.expected[last.i + 1],
                                       last.actual[last.i + 1])),
                !.i = last.i + 1]
  /\ UNCHANGED << keys, config, built, instance, saved, model, record, row >>

\* The loop is over: return accum === 0.
VerifyReturn ==
  /\ InVerify("loop")
  /\ last.i >= Len(last.expected)
  /\ last' = [last EXCEPT !.pc = "done", !.ret = (last.accum = 0)]
  /\ UNCHANGED << keys, config, built, instance, saved, model, record, row >>

\* The caller takes the value returned.
VerifyDone ==
  /\ InVerify("done")
  /\ Discard

NextVerify ==
  \/ \E expected \in Tags, actual \in Tags : VerifyCall(expected, actual)
  \/ VerifyLength
  \/ VerifyStep
  \/ VerifyReturn
  \/ VerifyDone

SpecVerify == InitVerify /\ [][NextVerify]_vars

(***************************************************************************)
(* Properties                                                              *)
(***************************************************************************)
\* The id stored with the saved envelope, as the caller passes it to decrypt.
SavedId == JsNumber(NumberToString(saved[1].keyringId))

\* The instance is the one that produced the saved envelope: a keyring built
\* from the same keys and options.
SameRing == saved # <<>> /\ Live /\ saved[1].ring = instance.ret

\* C1. Round trip: decrypt of the envelope and key id that encrypt returned
\* for a string, on a keyring built from the same keys and options, returns
\* exactly that string.
RoundTrip ==
  (last.op = "decrypt" /\ last.kind = "saved" /\ SameRing)
    => (last.out.err = "" /\ last.out.ret = saved[1].message)

\* The saved envelope, untouched, decrypts on the instance with its id.
SavedDecrypts ==
  RingDecrypt(instance.ret, saved[1].envelope, SavedId).err = ""

\* C2. Tamper detection: decrypt of an envelope of encrypt with one byte of
\* the decoded envelope changed, with the original key id, fails with
\* AuthenticationFailed.
TamperDetected ==
  (last.op = "decrypt" /\ last.kind = "tampered" /\ SameRing /\ SavedDecrypts)
    => last.out.err = "AuthenticationFailed"

CipherSteps == { "createDecipheriv", "update", "final" }

\* C3. Ordering inside decrypt: every decryption step of a decrypt call comes
\* after the comparison of the tags, and a call that fails with
\* AuthenticationFailed made no decryption step.
TagCheckedFirst ==
  last.op = "decrypt" =>
    LET t == last.out.trace
    IN  /\ \A i \in 1..Len(t) :
             t[i] \in CipherSteps
               => \E j \in 1..(i - 1) : t[j] = "verifySignature"
        /\ last.out.err = "AuthenticationFailed"
             => \A i \in 1..Len(t) : t[i] \notin CipherSteps

\* The highest of the integer ids of the mapping the instance was built from.
MaxBuiltId == Int32(SetMax(MappingIds(built)))

\* The envelope carries the tag of its nonce and ciphertext under the key's
\* signing key, and its ciphertext is the message under the key's encryption
\* key.
EnvelopeMadeWith(key, envelope, message) ==
  LET decoded == Base64Decode(envelope.s)
      iv == Slice(decoded, 32, 48)
      encrypted == SliceFrom(decoded, 48)
      padded == CbcDecryptBlocks(key.encryptionKey, iv, encrypted)
  IN  /\ Slice(decoded, 0, 32) = hmacDigest(key.signingKey, iv \o encrypted)
      /\ Pkcs7Valid(padded)
      /\ Pkcs7Unpad(padded) = Utf8Encode(message.s)

\* C4. Current key: currentId() and the key id every encrypt call returns
\* are the highest integer id of the mapping, and the envelope is made with
\* the sub-keys of a key that has this id.
CurrentKeyIsMax ==
  /\ last.op = "currentId" => last.out.ret = MaxBuiltId
  /\ (last.op = "encrypt" /\ last.out.err = "") =>
       /\ last.out.ret[2] = MaxBuiltId
       /\ \E i \in 1..Len(instance.ret.keys) :
            /\ instance.ret.keys[i].id = MaxBuiltId
            /\ EnvelopeMadeWith(instance.ret.keys[i], last.out.ret[1],
                                last.message)

\* An encrypt call returned on an instance built from two keys with two ids.
CurrentKeyIsMaxWitness ==
  /\ last.op = "encrypt"
  /\ last.out.err = ""
  /\ Cardinality(MappingIds(built)) = 2
  /\ last.out.ret[2] = Int32(2)

\* C5. Rotation: after keys with higher ids were added and the keyring
\* rebuilt, a fresh encrypt returns the highest id, and the envelope saved
\* before still decrypts, with the id saved with it, to its message.
RotationKeepsOld ==
  /\ (last.op = "encrypt" /\ last.out.err = "") => last.out.ret[2] = MaxBuiltId
  /\ (/\ last.op = "decrypt"
      /\ last.kind = "saved"
      /\ saved[1].ring # instance.ret
      /\ saved[1].keyringId.n \in MappingIds(built))
       => (last.out.err = "" /\ last.out.ret = saved[1].message)

\* The value is an id of a key of the instance: the number, or its numeral.
IsKeyId(ring, v) ==
  /\ v.t \in { "number", "string" }
  /\ \E i \in 1..Len(ring.keys) :
       ~ ring.keys[i].id.nan /\ v.s = NumberToString(ring.keys[i].id)

\* C6. Unknown id: decrypt with an id that is not the id of a key of the
\* keyring fails with UnknownKeyId, before anything is done with the envelope.
UnknownIdRejected ==
  (last.op = "decrypt" /\ ~ IsKeyId(instance.ret, last.keyringId))
    => (last.out.err = "UnknownKeyId" /\ last.out.trace = <<>>)

\* The algorithm a keyring() call with these options uses.
AlgorithmOf(options) ==
  IF options.encryption = Absent THEN defaultKeyringOptions.encryption
  ELSE options.encryption

\* A keyring() call just returned or threw, and it was given a supported
\* algorithm (or none).
Constructed == last.op = "keyring" /\ AlgorithmOf(last.options) \in SupportedAlgorithms

SaltGiven == last.options.digestSalt.t # "undefined"

EmptyKeyringRejected ==
  /\ (Constructed /\ SaltGiven /\ last.keys = <<>>)
       => last.out.err = "EmptyKeyring"
  /\ Live => Len(instance.ret.keys) > 0

EmptyKeyringRejectedWitness ==
  /\ Constructed
  /\ SaltGiven
  /\ last.keys = <<>>
  /\ last.out.err = "EmptyKeyring"

\* The name is the decimal numeral of an integer.
IsIntegerName(name) ==
  LET v == parseInt(name) IN ~ v.nan /\ NumberToString(v) = name

\* The secret decodes to twice the key size of the algorithm.
RightLength(entry, encryption) ==
  Len(Base64Decode(entry.v.s)) = 2 * keySizes(encryption).num.n

\* C9. Non-integer key id: keyring() of a mapping with a key that is not an
\* integer (with a salt, a supported algorithm and secrets of the right
\* length) fails with NonIntegerKeyId; every key of a mapping an instance was
\* built from is an integer numeral.
NonIntegerRejected ==
  /\ (/\ Constructed
      /\ SaltGiven
      /\ \A i \in 1..Len(last.keys) :
           RightLength(last.keys[i], AlgorithmOf(last.options))
      /\ \E i \in 1..Len(last.keys) : ~ IsIntegerName(last.keys[i].k))
       => last.out.err = "NonIntegerKeyId"
  /\ Live => \A i \in 1..Len(built) : IsIntegerName(built[i].k)

\* Every key of the instance has sub-keys of the key size of its algorithm.
SubKeysSized ==
  Live =>
    \A i \in 1..Len(instance.ret.keys) :
      LET size == keySizes(instance.ret.options.encryption).num.n
      IN  /\ Len(instance.ret.keys[i].signingKey) = size
          /\ Len(instance.ret.keys[i].encryptionKey) = size

SomeWrongLength ==
  \E i \in 1..Len(last.keys) :
    ~ RightLength(last.keys[i], AlgorithmOf(last.options))

InvalidAlgorithmRejected ==
  /\ (/\ last.op = "keyring"
      /\ SaltGiven
      /\ AlgorithmOf(last.options) \notin SupportedAlgorithms)
       => last.out.err = "InvalidAlgorithm"
  /\ (last.op = "keyring" /\ last.options.encryption = Absent /\ last.out.err = "")
       => last.out.ret.options.encryption = "aes-128-cbc"

\* C12. Malformed envelope: decrypt, with the id of a key, of an envelope that
\* decodes to fewer than 48 bytes fails with MalformedEnvelope, which is
\* neither AuthenticationFailed nor an error of the cipher.
ShortEnvelopeRejected ==
  (/\ last.op = "decrypt"
   /\ IsKeyId(instance.ret, last.keyringId)
   /\ Len(Base64Decode(last.envelope.s)) < 48)
    => last.out.err = "MalformedEnvelope"

\* C13. encrypt input type: encrypt of a message that is not a string fails
\* with InvalidInputType.
NonStringRejected ==
  (last.op = "encrypt" /\ ~ isString(last.message))
    => last.out.err = "InvalidInputType"

SaltedDigest(message) ==
  JsString(Sha1Hex(message.s \o StringOf(config.digestSalt)))

\* C15. Digest value: the digest encrypt returns is digest() of the message
\* on the same keyring and SHA1hex of the message followed by the salt; it is
\* the digest saved for the same message, whatever the nonce, and whatever
\* the keys of the instance before or after a rotation.
DigestValue ==
  /\ (last.op = "digest" /\ last.out.err = "")
       => last.out.ret = SaltedDigest(last.message)
  /\ (last.op = "encrypt" /\ last.out.err = "")
       => /\ last.out.ret[3] = SaltedDigest(last.message)
          /\ last.out.ret[3] = RingDigest(instance.ret, last.message).ret
          /\ (saved # <<>> /\ saved[1].message = last.message)
               => last.out.ret[3] = saved[1].digest

\* encrypt returned for the message saved before the keyring was rebuilt with
\* one more key, under the salt "a".
DigestValueWitness ==
  /\ last.op = "encrypt"
  /\ last.out.err = ""
  /\ saved # <<>>
  /\ saved[1].message = last.message
  /\ Len(saved[1].ring.keys) < Len(instance.ret.keys)
  /\ config.digestSalt = JsString(<< 97 >>)

FirstHalf(entry) ==
  LET secret == Base64Decode(entry.v.s)
  IN  SubSeq(secret, 1, Len(secret) \div 2)

SecondHalf(entry) ==
  LET secret == Base64Decode(entry.v.s)
  IN  SubSeq(secret, (Len(secret) \div 2) + 1, Len(secret))

Encrypted128 ==
  /\ last.op = "encrypt"
  /\ last.out.err = ""
  /\ instance.ret.options.encryption = "aes-128-cbc"

ResolvableIds ==
  { n \in 0..(MaxKeys + 1) :
      findKey(instance.ret.keys, JsNumber(NumberToString(Int32(n)))).err = "" }

\* C19. Key set frame: only keyring() makes or changes an instance; encrypt,
\* decrypt, digest and currentId calls, failing or not, and keys added to the
\* raw mapping leave it as it is.  currentId() and the ids decrypt resolves
\* are those of the mapping the instance was built from, and a call that
\* fails returns nothing.
KeySetFrame ==
  /\ [][last'.op # "keyring" => (instance' = instance /\ built' = built)]_vars
  /\ [](Live => /\ RingCurrentId(instance.ret) = MaxBuiltId
                /\ ResolvableIds = MappingIds(built))
  /\ [](last.op \notin { "idle", "keyring" }
          => (last.out.err # "" => last.out.ret = JsUndefined))

\* currentId() was called on an instance after a key was added to the raw
\* mapping the instance was built from.
KeySetFrameWitness ==
  /\ last.op = "currentId"
  /\ Len(keys) > Len(built)
  /\ last.out.ret = MaxBuiltId

\* The last call was a beforeSave that did not throw: record is the record
\* as the hook left it and row is what the database keeps of it.
SavedRecord == last.op = "beforeSave" /\ last.out.err = ""

\* The configured columns whose value was a string when beforeSave ran.
StringColumns ==
  { column \in { Columns[i] : i \in 1..Len(Columns) } :
      isString(last.before[column]) }

\* C20. Sequelize save/load round trip: after beforeSave ran on a record,
\* for every configured column whose value is a string v, encrypted_<column>
\* holds an envelope different from v, the keyring id column holds the
\* maximum id of the configured keys, afterFind on the stored row sets the
\* column back to exactly v, and every such envelope is made with a key of
\* the one id the record stores.
SaveLoadRoundTrip ==
  (SavedRecord /\ StringColumns # {}) =>
    LET found == afterFind(row, model, keys, config)
        ring == keyring(keys, HookOptions(config)).ret
        id == record[model.keyringIdColumn]
    IN  /\ id = IdValue(Int32(SetMax(MappingIds(keys))))
        /\ found.err = ""
        /\ \A column \in StringColumns :
             /\ isString(record[EncryptedColumn(column)])
             /\ record[EncryptedColumn(column)] # last.before[column]
             /\ found.record[column] = last.before[column]
             /\ findKey(ring.keys, id).err = ""
             /\ EnvelopeMadeWith(findKey(ring.keys, id).ret,
                                 record[EncryptedColumn(column)],
                                 last.before[column])

\* The highest id of the model's mapping, as a value of a record.
MaxKeyId == IdValue(Int32(SetMax(MappingIds(keys))))

\* beforeSave ran on a record stored under an id lower than the highest id
\* of the mapping: a key was added since the record was saved.
Rotated ==
  /\ SavedRecord
  /\ last.before[model.keyringIdColumn].t = "number"
  /\ parseInt(last.before[model.keyringIdColumn].s).n < SetMax(MappingIds(keys))

\* The plaintext columns of rec are what afterFind makes of its encrypted
\* columns: a column without an envelope holds no string.
Loaded(rec) ==
  LET found == afterFind(Persisted(rec), model, keys, config)
  IN  /\ found.err = ""
      /\ \A i \in 1..Len(Columns) :
           IF isString(rec[EncryptedColumn(Columns[i])])
           THEN found.record[Columns[i]] = rec[Columns[i]]
           ELSE ~ isString(rec[Columns[i]])

\* The record holds the highest id, every string column has an envelope
\* made with the key of that id, and the row loads to the plaintexts the
\* record had.
Reencrypted ==
  LET found == afterFind(row, model, keys, config)
      ring == keyring(keys, HookOptions(config)).ret
  IN  /\ record[model.keyringIdColumn] = MaxKeyId
      /\ record[model.keyringIdColumn] # last.before[model.keyringIdColumn]
      /\ found.err = ""
      /\ \A column \in StringColumns :
           /\ findKey(ring.keys, MaxKeyId).err = ""
           /\ EnvelopeMadeWith(findKey(ring.keys, MaxKeyId).ret,
                               record[EncryptedColumn(column)],
                               last.before[column])
           /\ found.record[column] = last.before[column]

\* C21 as stated. Rotation on save: the next save of a loaded record after a
\* key with a higher id was added sets the keyring id column to the new
\* highest id and re-encrypts every string column under the new key, and
\* the record still loads to the same plaintexts.
RotationOnSaveAlways == (Rotated /\ Loaded(last.before)) => Reencrypted

\* C21. Rotation on save, when the record has a string column: the save sets
\* the keyring id column to the new highest id, re-encrypts every string
\* column under the new key and the record loads to the same plaintexts. A
\* record with no string column has no envelope and keeps the id it stores,
\* but for the id 0, which the highest id replaces.
RotationOnSave ==
  (Rotated /\ Loaded(last.before)) =>
    IF StringColumns # {} THEN Reencrypted
    ELSE /\ record[model.keyringIdColumn] =
              IF Falsy(last.before[model.keyringIdColumn]) THEN MaxKeyId
              ELSE last.before[model.keyringIdColumn]
         /\ \A i \in 1..Len(Columns) :
              record[EncryptedColumn(Columns[i])] = JsNull

\* A loaded record with the two string columns was saved after a rotation
\* and its envelopes changed.
RotationOnSaveWitness ==
  /\ Rotated
  /\ Loaded(last.before)
  /\ Cardinality(StringColumns) = 2
  /\ Reencrypted
  /\ \A column \in StringColumns :
       record[EncryptedColumn(column)] # last.before[EncryptedColumn(column)]

\* Keyring(keys, {encryption, digestSalt}) of the hooks does not throw.
ModelKeyringBuilt == keyring(keys, HookOptions(config)).err = ""

ColumnSet == { Columns[i] : i \in 1..Len(Columns) }

InSeq(x, s) == \E i \in 1..Len(s) : s[i] = x

\* C22. Non-string column values: beforeSave calls encrypt for no column
\* whose value is not a string, sets encrypted_<column> and a declared
\* <column>_digest of such a column to null, and does not throw when the
\* keyring is built and no column is a string; afterFind calls decrypt for
\* no column whose encrypted_<column> is not a string and sets it to null.
NonStringColumns ==
  /\ last.op = "beforeSave" =>
       /\ \A column \in ColumnSet \ StringColumns :
            /\ ~ InSeq(column, last.out.calls)
            /\ last.out.err = "" =>
                 /\ record[EncryptedColumn(column)] = JsNull
                 /\ DigestColumn(column) \in Attributes
                      => record[DigestColumn(column)] = JsNull
       /\ (ModelKeyringBuilt /\ StringColumns = {}) =>
            (last.out.err = "" /\ last.out.calls = <<>>)
  /\ last.op = "afterFind" =>
       /\ \A column \in ColumnSet :
            ~ isString(last.before[EncryptedColumn(column)]) =>
              /\ ~ InSeq(column, last.out.calls)
              /\ last.out.err = "" => record[column] = JsNull
       /\ (ModelKeyringBuilt
             /\ \A column \in ColumnSet :
                  ~ isString(last.before[EncryptedColumn(column)])) =>
            (last.out.err = "" /\ last.out.calls = <<>>)

\* beforeSave cleared the envelope and the digest of email, now a number,
\* and encrypted secret.
NonStringColumnsWitness ==
  /\ SavedRecord
  /\ last.before["email"].t = "number"
  /\ isString(last.before["encrypted_email"])
  /\ isString(last.before["email_digest"])
  /\ record["encrypted_email"] = JsNull
  /\ record["email_digest"] = JsNull
  /\ last.out.calls = << "secret" >>

\* C23. Digest columns: after beforeSave, for each configured column with a
\* string value v, a declared <column>_digest is sha1(v, {digestSalt}), at
\* the first save and at every later one; beforeSave never writes a
\* <column>_digest that the model does not declare.
DigestColumns ==
  /\ SavedRecord =>
       \A column \in StringColumns :
         DigestColumn(column) \in Attributes =>
           record[DigestColumn(column)]
             = sha1(last.before[column], [digestSalt |-> config.digestSalt]).ret
  /\ \A column \in ColumnSet :
       DigestColumn(column) \notin Attributes =>
         (record[DigestColumn(column)] = JsUndefined
            /\ row[DigestColumn(column)] = JsUndefined)

\* An update: the record had a digest of email, email was set to another
\* string and saved, with secret a string too.
DigestColumnsWitness ==
  /\ SavedRecord
  /\ StringColumns = ColumnSet
  /\ isString(last.before["email_digest"])
  /\ record["email_digest"] # last.before["email_digest"]
  /\ isString(record["encrypted_secret"])
  /\ record["secret_digest"] = JsUndefined

\* The key id attributes of the model that are not its keyringIdColumn.
OtherIdColumns == KeyringIdColumns \ { model.keyringIdColumn }

\* C24. Custom keyring id column: with keyringIdColumn = c, beforeSave
\* writes the key id to c and to no other attribute, so keyring_id is never
\* written, and afterFind reads the id from c alone: whatever the other
\* attribute holds, it does the same. With no keyringIdColumn given the
\* attribute is keyring_id.
CustomIdColumn ==
  /\ model.keyringIdColumn \in
       { SetupKeyringIdColumn(Absent), "custom_keyring_id" }
  /\ SetupKeyringIdColumn(Absent) = "keyring_id"
  /\ \A other \in OtherIdColumns :
       record[other] = JsUndefined /\ row[other] = JsUndefined
  /\ SavedRecord =>
       (record[model.keyringIdColumn].t = "number"
          /\ row[model.keyringIdColumn] = record[model.keyringIdColumn])
  /\ last.op = "afterFind" =>
       \A other \in OtherIdColumns :
         afterFind([last.before EXCEPT ![other] = IdValue(Int32(7))],
                   model, keys, config)
           = [last.out EXCEPT !.record[other] = IdValue(Int32(7))]

\* A record saved and loaded back with the id in custom_keyring_id.
CustomIdColumnWitness ==
  /\ model.keyringIdColumn = "custom_keyring_id"
  /\ last.op = "afterFind"
  /\ last.out.err = ""
  /\ Len(last.out.calls) = 2
  /\ record["custom_keyring_id"].t = "number"
  /\ record["keyring_id"] = JsUndefined

\* The envelope carries the tag of its nonce and ciphertext under the key's
\* signing key and its ciphertext unpads under the key's encryption key.
EnvelopeOfKey(key, envelope) ==
  LET decoded == Base64Decode(envelope.s)
      iv == Slice(decoded, 32, 48)
      encrypted == SliceFrom(decoded, 48)
  IN  /\ Slice(decoded, 0, 32) = hmacDigest(key.signingKey, iv \o encrypted)
      /\ Pkcs7Valid(CbcDecryptBlocks(key.encryptionKey, iv, encrypted))

\* C25. Keys no longer in use can be removed: every envelope of the stored
\* record was produced with the key that the mapping gives for the id in
\* the record's keyring id column, and removing a key whose id the stored
\* record does not hold never makes afterFind fail for the stored record.
UnusedKeysRemovable ==
  /\ (row # NewRecord /\ ModelKeyringBuilt) =>
       \A column \in ColumnSet :
         isString(row[EncryptedColumn(column)]) =>
           LET key == findKey(keyring(keys, HookOptions(config)).ret.keys,
                              row[model.keyringIdColumn])
           IN  key.err = "" /\ EnvelopeOfKey(key.ret, row[EncryptedColumn(column)])
  /\ (last.op = "removeKey" /\ row # NewRecord
        /\ afterFind(row, model, last.before, config).err = "")
       => afterFind(row, model, keys, config).err = ""

\* C26. Key-id data-model invariant: in every key set that keyring()
\* constructs, every id is a non-negative integer and the ids are pairwise
\* distinct, so the key set has one key per id and as many keys as the raw
\* mapping has entries.
KeyIdsDistinct ==
  Live =>
    LET ks == instance.ret.keys
    IN  /\ \A i \in 1..Len(ks) : ~ ks[i].id.nan /\ ks[i].id.n >= 0
        /\ \A i, j \in 1..Len(ks) : ks[i].id = ks[j].id => i = j
        /\ Cardinality({ ks[i].id : i \in 1..Len(ks) }) = Len(ks)
        /\ Len(ks) = Len(built)

\* decrypt of the envelope gives the same with the id of a key as a number
\* and as its numeral.
NumeralEquivalent(ring, envelope) ==
  \A i \in 1..Len(ring.keys) :
    RingDecrypt(ring, envelope, JsNumber(NumberToString(ring.keys[i].id)))
      = RingDecrypt(ring, envelope, JsString(NumberToString(ring.keys[i].id)))

\* C27. Lookup coercion: for every id n of the key set decrypt(envelope, n)
\* and decrypt(envelope, String(n)) give the same result, and an id value
\* that is not the numeral of an id of the set ("1abc", 1.5, undefined)
\* fails with UnknownKeyId.
LookupCoercion ==
  last.op = "decrypt" =>
    /\ NumeralEquivalent(instance.ret, last.envelope)
    /\ ~ IsKeyId(instance.ret, last.keyringId) => last.out.err = "UnknownKeyId"

\* C28. Tag comparison: verifySignature returns true exactly when the two
\* byte sequences have the same length and are equal at every position;
\* with equal lengths it returns after as many passes of the loop as there
\* are bytes, wherever the first difference is, and accum is the OR of the
\* XORs of the pairs visited.
TagComparison ==
  /\ InVerify("done") =>
       /\ last.ret = (last.expected = last.actual)
       /\ last.ret = verifySignature(last.expected, last.actual)
       /\ Len(last.expected) = Len(last.actual) => last.i = Len(last.expected)
  /\ (last.op = "verifySignature" /\ last.pc # "length") =>
       last.accum = VerifyAccum(SubSeq(last.expected, 1, last.i),
                                SubSeq(last.actual, 1, last.i), 1, 0)

\* A call returned false for two buffers of the same length whose first
\* bytes differ, after a pass for every byte.
TagComparisonWitness ==
  /\ InVerify("done")
  /\ Len(last.expected) = Len(last.actual)
  /\ Len(last.expected) >= 2
  /\ last.expected[1] # last.actual[1]
  /\ last.i = Len(last.expected)
  /\ ~ last.ret

\* C29. Current/lookup agreement: for every key set that keyring() accepts,
\* the key that encrypt uses, currentKey, is the key that decrypt resolves
\* for the id encrypt returns, findKey(currentId()).
CurrentIsFound ==
  Live =>
    LET found == findKey(instance.ret.keys, IdValue(RingCurrentId(instance.ret)))
    IN  found.err = "" /\ found.ret = currentKey(instance.ret.keys)

\* The one error of keyring(mapping, options) by the fixed order of the
\* checks, "" when there is nothing to report.
ErrorInOrder(mapping, options) ==
  IF options.digestSalt.t = "undefined" THEN "MissingDigestSalt"
  ELSE IF AlgorithmOf(options) \notin SupportedAlgorithms THEN "InvalidAlgorithm"
  ELSE IF \E i \in 1..Len(mapping) : ~ RightLength(mapping[i], AlgorithmOf(options))
  THEN "WrongKeyLength"
  ELSE IF mapping = <<>> THEN "EmptyKeyring"
  ELSE IF \E i \in 1..Len(mapping) : ~ IsIntegerName(mapping[i].k)
  THEN "NonIntegerKeyId"
  ELSE ""

\* C30. Validation precedence: keyring() raises exactly one error, chosen in
\* the order MissingDigestSalt, InvalidAlgorithm, WrongKeyLength,
\* EmptyKeyring, NonIntegerKeyId, and none when none of them applies.
ValidationPrecedence ==
  last.op = "keyring" => last.out.err = ErrorInOrder(last.keys, last.options)

====
